---- MODULE Spec2Model ----
(***************************************************************************)
(* State-machine model of nvtraystat's tray monitor                        *)
(* (src/nv_monitor_service.py, class SystemTrayApp) and of its task        *)
(* manager window (src/gpu_task_manager.py, GPUWorker and GpuTaskManager). *)
(* The two are separate programs: Spec runs the tray monitor, WorkerSpec   *)
(* the task manager, each with the other left as constructed.              *)
(*                                                                         *)
(* One action per Qt callback: the four QTimer timeouts and the menu's     *)
(* aboutToShow.  Each callback is a pure operator on a record holding the  *)
(* object's fields; the action commits the record the callback returns.    *)
(* The environment (power file, nvidia-smi) answers every query            *)
(* nondeterministically.                                                   *)
(***************************************************************************)
EXTENDS Integers, Sequences, FiniteSets, TLC

VARIABLES
    state,               \* self.state
    fast_check_counter,  \* self.fast_check_counter
    process_timer,       \* self.process_timer.isActive()
    status_timer,        \* self.status_timer.isActive()
    fast_check_timer,    \* self.fast_check_timer.isActive()
    idle_timer,          \* self.idle_timer.isActive()
    last_parsed_data,    \* self.last_parsed_data
    gpu_status_data,     \* self.gpu_status_data
    menu_data,           \* value returned by the last get_menu_data
    log,                 \* history: the queries issued by the last callback, in order
    trigger,             \* history: which callback ran last
    prev_counter,        \* history: fast_check_counter on entry to the last callback
    prev_trigger,        \* history: which callback ran before the last one
    fnf_seen,            \* history: some power-file read raised FileNotFoundError
    proc_failed,         \* history: some process query raised
    retried,             \* history: a process query was issued after one had failed
    fast_checks,         \* history: fast-check timeouts that ran a check since
                         \* IDLE_DETECTING was last entered
    \* --- src/gpu_task_manager.py ---
    NVML_AVAILABLE,      \* module constant: import pynvml succeeded
    nvml_procs,          \* environment: what the NVML process queries yield
    proc_scan,           \* environment: what the /proc shell query yields
    nvml_loaded,         \* the NVML library is initialised (nvmlInit without nvmlShutdown)
    worker_is_initialized, \* GPUWorker._is_initialized
    worker_handle,       \* GPUWorker.handle
    emitted,             \* payload of the last data_ready.emit
    table,               \* rows of GpuTaskManager.table
    refresh_timer,       \* GpuTaskManager.refresh_timer.isActive()
    window,              \* the widget: "created", "shown" or "hidden"
    fetch_thread,        \* history: the thread the last fetch_processes ran on
    fetch_count,         \* history: calls of fetch_processes in the last callback
    emit_count,          \* history: data_ready.emit calls in the last callback
    apply_count          \* history: runs of populate_table in the last callback

trayVars == <<state, fast_check_counter, process_timer, status_timer, fast_check_timer,
          idle_timer, last_parsed_data, gpu_status_data, menu_data, log, trigger,
          prev_counter, prev_trigger, fnf_seen, proc_failed, retried, fast_checks>>

workerVars == <<NVML_AVAILABLE, nvml_procs, proc_scan, nvml_loaded, worker_is_initialized,
                worker_handle, emitted, table, refresh_timer, window,
                fetch_thread, fetch_count, emit_count, apply_count>>

vars == <<trayVars, workerVars>>

-----------------------------------------------------------------------------
(* Configuration and the environment's possible answers *)

FAST_CHECK_COUNT == 3

\* Longest nvidia-smi output (in lines) the environment produces.
MaxLines == 2

\* A line of nvidia-smi CSV output, as its comma-separated, stripped fields.
Lines == { <<"1234", "train.py">>, <<"No running processes found">> }

RECURSIVE SeqsUpTo(_, _)
SeqsUpTo(S, n) ==
    IF n = 0 THEN { <<>> }
    ELSE LET shorter == SeqsUpTo(S, n - 1)
         IN  shorter \cup { Append(q, x) : q \in { r \in shorter : Len(r) = n - 1 }, x \in S }

\* What open(RUNTIME_STATUS_PATH).read().strip() yields, or the exception it raises.
PowerOutcomes == { "active", "suspended", "suspending", "FileNotFoundError", "PermissionError" }

\* What subprocess.run(NVIDIA_SMI_PROCESS_COMMAND, check=True, timeout=3) yields.
ProcOutcomes ==
    { [ok |-> TRUE, raw |-> r] : r \in SeqsUpTo(Lines, MaxLines) }
        \cup { [ok |-> FALSE, raw |-> <<>>] }

\* What subprocess.run(NVIDIA_SMI_STATUS_COMMAND, check=True, timeout=1) yields.
MetricsOutcomes ==
    { [ok |-> TRUE,  raw |-> << <<"45 %", "512 MiB">> >>],
      [ok |-> TRUE,  raw |-> << <<"[N/A]">> >>],
      [ok |-> FALSE, raw |-> <<>>] }

States == { "UNKNOWN", "ACTIVE", "IDLE_DETECTING", "SUSPENDED", "ERROR" }

-----------------------------------------------------------------------------
(* Values *)

None == [kind |-> "None", rows |-> <<>>]
List(rows) == [kind |-> "list", rows |-> rows]
Truthy(v) == v.kind = "list" /\ Len(v.rows) > 0

CommandFailed == List(<< <<"Error", "Command Failed">> >>)

MetricsNA   == [utilization |-> "N/A", memory_used |-> "N/A"]
MetricsZero == [utilization |-> "0%",  memory_used |-> "0MiB"]

\* One entry of the query log: which query, the state it was issued in, its result.
Query(op, at, res) == [op |-> op, at |-> at, res |-> res]

Issue(s, op, res) == [s EXCEPT !.log = Append(@, Query(op, s.state, res))]

-----------------------------------------------------------------------------
(* Parsers *)

RECURSIVE KeepPairs(_)
KeepPairs(raw) ==
    IF raw = <<>> THEN <<>>
    ELSE LET rest == KeepPairs(Tail(raw))
         IN  IF Len(Head(raw)) = 2 THEN <<Head(raw)>> \o rest ELSE rest

parse_nvidia_smi_output_processes(raw_output) == KeepPairs(raw_output)

parse_nvidia_smi_output_status(raw_output) ==
    IF Len(raw_output) > 0 /\ Len(raw_output[1]) = 2
    THEN [utilization |-> raw_output[1][1], memory_used |-> raw_output[1][2]]
    ELSE MetricsNA

-----------------------------------------------------------------------------
(* The object's methods, as operators on the record of its fields *)

\* set_state without the stage-1 reset of the counter.
set_state_NoCounterReset(s, new_state) ==
    IF s.state # new_state
    THEN LET s1 == [s EXCEPT !.state = new_state,
                             !.idle_timer = FALSE,
                             !.fast_check_timer = FALSE,
                             !.process_timer = FALSE]
         IN  CASE new_state = "SUSPENDED"      -> s1
               [] new_state = "IDLE_DETECTING" -> [s1 EXCEPT !.fast_check_timer = TRUE]
               [] new_state = "ERROR"          -> s1
               [] OTHER                        -> [s1 EXCEPT !.process_timer = TRUE]
    ELSE s

\* set_state that stops the fast-check and process timers but not the slow idle timer.
set_state_KeepsIdleTimer(s, new_state) ==
    IF s.state # new_state
    THEN LET s1 == [s EXCEPT !.state = new_state,
                             !.fast_check_timer = FALSE,
                             !.process_timer = FALSE]
         IN  CASE new_state = "SUSPENDED"      -> s1
               [] new_state = "IDLE_DETECTING" ->
                      [s1 EXCEPT !.fast_check_counter = FAST_CHECK_COUNT,
                                 !.fast_check_timer = TRUE]
               [] new_state = "ERROR"          -> s1
               [] OTHER                        -> [s1 EXCEPT !.process_timer = TRUE]
    ELSE s

set_state(s, new_state) ==
    IF s.state # new_state
    THEN LET s1 == [s EXCEPT !.state = new_state,
                             !.idle_timer = FALSE,
                             !.fast_check_timer = FALSE,
                             !.process_timer = FALSE]
         IN  CASE new_state = "SUSPENDED"      -> s1
               [] new_state = "IDLE_DETECTING" ->
                      [s1 EXCEPT !.fast_check_counter = FAST_CHECK_COUNT,
                                 !.fast_check_timer = TRUE]
               [] new_state = "ERROR"          -> s1
               [] OTHER                        -> [s1 EXCEPT !.process_timer = TRUE]
    ELSE s

\* force_run_process_check whose except branch records the failure and keeps the state.
force_run_process_check_FailureKeepsState(s, out) ==
    LET parsed_data == parse_nvidia_smi_output_processes(out.raw)
        res == IF ~out.ok THEN "failed"
               ELSE IF Len(parsed_data) > 0 THEN "nonempty" ELSE "empty"
        s0  == Issue(s, "processes", res)
    IN  IF ~out.ok
        THEN [s0 EXCEPT !.last_parsed_data = CommandFailed]
        ELSE IF Len(parsed_data) > 0
        THEN LET s1 == [s0 EXCEPT !.last_parsed_data = List(parsed_data)]
             IN  IF s1.state # "ACTIVE" THEN set_state(s1, "ACTIVE") ELSE s1
        ELSE [s0 EXCEPT !.last_parsed_data = None]

\* force_run_process_check that, like the process timer's callback, enters
\* IDLE_DETECTING when the list is empty.
force_run_process_check_DemotesOnEmpty(s, out) ==
    LET parsed_data == parse_nvidia_smi_output_processes(out.raw)
        res == IF ~out.ok THEN "failed"
               ELSE IF Len(parsed_data) > 0 THEN "nonempty" ELSE "empty"
        s0  == Issue(s, "processes", res)
    IN  IF ~out.ok
        THEN set_state([s0 EXCEPT !.last_parsed_data = CommandFailed], "ERROR")
        ELSE IF Len(parsed_data) > 0
        THEN LET s1 == [s0 EXCEPT !.last_parsed_data = List(parsed_data)]
             IN  IF s1.state # "ACTIVE" THEN set_state(s1, "ACTIVE") ELSE s1
        ELSE set_state([s0 EXCEPT !.last_parsed_data = None], "IDLE_DETECTING")

\* force_run_process_check that stores the processes it found and leaves the state.
force_run_process_check_NoPromote(s, out) ==
    LET parsed_data == parse_nvidia_smi_output_processes(out.raw)
        res == IF ~out.ok THEN "failed"
               ELSE IF Len(parsed_data) > 0 THEN "nonempty" ELSE "empty"
        s0  == Issue(s, "processes", res)
    IN  IF ~out.ok
        THEN set_state([s0 EXCEPT !.last_parsed_data = CommandFailed], "ERROR")
        ELSE IF Len(parsed_data) > 0
        THEN [s0 EXCEPT !.last_parsed_data = List(parsed_data)]
        ELSE [s0 EXCEPT !.last_parsed_data = None]

force_run_process_check(s, out) ==
    LET parsed_data == parse_nvidia_smi_output_processes(out.raw)
        res == IF ~out.ok THEN "failed"
               ELSE IF Len(parsed_data) > 0 THEN "nonempty" ELSE "empty"
        s0  == Issue(s, "processes", res)
    IN  IF ~out.ok
        THEN set_state([s0 EXCEPT !.last_parsed_data = CommandFailed], "ERROR")
        ELSE IF Len(parsed_data) > 0
        THEN LET s1 == [s0 EXCEPT !.last_parsed_data = List(parsed_data)]
             IN  IF s1.state # "ACTIVE" THEN set_state(s1, "ACTIVE") ELSE s1
        ELSE [s0 EXCEPT !.last_parsed_data = None]

\* run_nvidia_smi_processes whose except branch records the failure and keeps the state.
run_nvidia_smi_processes_FailureKeepsState(s, out) ==
    IF s.state # "ACTIVE" THEN s
    ELSE LET parsed_data == parse_nvidia_smi_output_processes(out.raw)
             res == IF ~out.ok THEN "failed"
                    ELSE IF Len(parsed_data) > 0 THEN "nonempty" ELSE "empty"
             s0  == Issue(s, "processes", res)
         IN  IF ~out.ok
             THEN [s0 EXCEPT !.last_parsed_data = CommandFailed]
             ELSE LET s1 == IF Len(parsed_data) = 0
                            THEN set_state(s0, "IDLE_DETECTING") ELSE s0
                  IN  [s1 EXCEPT !.last_parsed_data = List(parsed_data)]

run_nvidia_smi_processes(s, out) ==
    IF s.state # "ACTIVE" THEN s
    ELSE LET parsed_data == parse_nvidia_smi_output_processes(out.raw)
             res == IF ~out.ok THEN "failed"
                    ELSE IF Len(parsed_data) > 0 THEN "nonempty" ELSE "empty"
             s0  == Issue(s, "processes", res)
         IN  IF ~out.ok
             THEN set_state([s0 EXCEPT !.last_parsed_data = CommandFailed], "ERROR")
             ELSE LET s1 == IF Len(parsed_data) = 0
                            THEN set_state(s0, "IDLE_DETECTING") ELSE s0
                  IN  [s1 EXCEPT !.last_parsed_data = List(parsed_data)]

\* check_idle_process_activity with one deviation at the end of stage 1, named by bug:
\*   "no_slow_loop": the fast-check timer is stopped and the idle timer not started;
\*   "both_timers":  the idle timer is started and the fast-check timer not stopped;
\*   "one_more":     stage 1 ends when the counter is below 0, not at 0.
check_idle_process_activity_variant(s, out, bug) ==
    IF s.state # "IDLE_DETECTING" THEN s
    ELSE LET s1 == force_run_process_check(s, out)
         IN  IF s1.state = "ACTIVE" THEN s1
             ELSE IF s1.fast_check_timer
             THEN LET s2 == [s1 EXCEPT !.fast_check_counter = @ - 1]
                  IN  IF s2.fast_check_counter < 0
                         \/ (bug # "one_more" /\ s2.fast_check_counter = 0)
                      THEN CASE bug = "no_slow_loop" ->
                                    [s2 EXCEPT !.fast_check_timer = FALSE]
                             [] bug = "both_timers" ->
                                    [s2 EXCEPT !.idle_timer = TRUE]
                             [] OTHER ->
                                    [s2 EXCEPT !.fast_check_timer = FALSE,
                                               !.idle_timer = TRUE]
                      ELSE s2
             ELSE s1

check_idle_process_activity_NoSlowLoop(s, out) ==
    check_idle_process_activity_variant(s, out, "no_slow_loop")

check_idle_process_activity_BothTimers(s, out) ==
    check_idle_process_activity_variant(s, out, "both_timers")

check_idle_process_activity_OneMore(s, out) ==
    check_idle_process_activity_variant(s, out, "one_more")

check_idle_process_activity(s, out) ==
    IF s.state # "IDLE_DETECTING" THEN s
    ELSE LET s1 == force_run_process_check(s, out)
         IN  IF s1.state = "ACTIVE" THEN s1
             ELSE IF s1.fast_check_timer
             THEN LET s2 == [s1 EXCEPT !.fast_check_counter = @ - 1]
                  IN  IF s2.fast_check_counter <= 0
                      THEN [s2 EXCEPT !.fast_check_timer = FALSE, !.idle_timer = TRUE]
                      ELSE s2
             ELSE s1

run_nvidia_smi_status(s, m) ==
    LET s0 == Issue(s, "metrics", IF m.ok THEN "ok" ELSE "failed")
    IN  IF m.ok
        THEN [s0 EXCEPT !.gpu_status_data = parse_nvidia_smi_output_status(m.raw)]
        ELSE [s0 EXCEPT !.gpu_status_data = MetricsNA]

\* check_runtime_status with one deviation, named by bug:
\*   "suspend_from_active": the ongoing-polling branch also handles ACTIVE;
\*   "wake_to_idle":        a wake-up from SUSPENDED goes to IDLE_DETECTING;
\*   "recover_from_error":  ERROR is treated like UNKNOWN;
\*   "any_error_fatal":     every exception takes the FileNotFoundError branch;
\*   "idle_wakes_on_active": in IDLE_DETECTING an 'active' read goes to ACTIVE.
check_runtime_status_variant(s, startup_check, read, bug) ==
    LET s0 == Issue(s, "power", read)
        fatal == read = "FileNotFoundError"
                     \/ (bug = "any_error_fatal" /\ read = "PermissionError")
    IN  CASE fatal ->
                 IF s0.state # "ERROR"
                 THEN set_state([s0 EXCEPT !.status_timer = FALSE,
                                           !.process_timer = FALSE], "ERROR")
                 ELSE s0
          [] ~fatal /\ read = "PermissionError" -> s0
          [] OTHER ->
                 IF startup_check \/ s0.state = "UNKNOWN"
                        \/ (bug = "recover_from_error" /\ s0.state = "ERROR")
                 THEN IF read = "suspended" THEN set_state(s0, "SUSPENDED")
                      ELSE IF read = "active" THEN set_state(s0, "ACTIVE")
                      ELSE s0
                 ELSE IF s0.state = "IDLE_DETECTING"
                            \/ (bug = "suspend_from_active" /\ s0.state = "ACTIVE")
                 THEN IF read = "suspended" THEN set_state(s0, "SUSPENDED")
                      ELSE IF bug = "idle_wakes_on_active" /\ read = "active"
                      THEN set_state(s0, "ACTIVE")
                      ELSE s0
                 ELSE IF s0.state = "SUSPENDED"
                 THEN IF read = "active"
                      THEN set_state(s0, IF bug = "wake_to_idle"
                                         THEN "IDLE_DETECTING" ELSE "ACTIVE")
                      ELSE s0
                 ELSE s0

check_runtime_status_SuspendFromActive(s, startup_check, read) ==
    check_runtime_status_variant(s, startup_check, read, "suspend_from_active")

check_runtime_status_WakeToIdle(s, startup_check, read) ==
    check_runtime_status_variant(s, startup_check, read, "wake_to_idle")

check_runtime_status_RecoverFromError(s, startup_check, read) ==
    check_runtime_status_variant(s, startup_check, read, "recover_from_error")

check_runtime_status_AnyErrorFatal(s, startup_check, read) ==
    check_runtime_status_variant(s, startup_check, read, "any_error_fatal")

check_runtime_status_IdleWakesOnActive(s, startup_check, read) ==
    check_runtime_status_variant(s, startup_check, read, "idle_wakes_on_active")

check_runtime_status(s, startup_check, read) ==
    LET s0 == Issue(s, "power", read)
    IN  CASE read = "FileNotFoundError" ->
                 IF s0.state # "ERROR"
                 THEN set_state([s0 EXCEPT !.status_timer = FALSE,
                                           !.process_timer = FALSE], "ERROR")
                 ELSE s0
          [] read = "PermissionError" -> s0
          [] OTHER ->
                 IF startup_check \/ s0.state = "UNKNOWN"
                 THEN IF read = "suspended" THEN set_state(s0, "SUSPENDED")
                      ELSE IF read = "active" THEN set_state(s0, "ACTIVE")
                      ELSE s0
                 ELSE IF s0.state = "IDLE_DETECTING"
                 THEN IF read = "suspended" THEN set_state(s0, "SUSPENDED") ELSE s0
                 ELSE IF s0.state = "SUSPENDED"
                 THEN IF read = "active" THEN set_state(s0, "ACTIVE") ELSE s0
                 ELSE s0

\* check_status_and_metrics that queries metrics whenever the power state is known,
\* SUSPENDED and IDLE_DETECTING included.
check_status_and_metrics_MetricsWhenKnown(s, startup_check, read, m) ==
    LET s1 == check_runtime_status(s, startup_check, read)
    IN  IF s1.state # "ERROR" /\ s1.state # "UNKNOWN" THEN run_nvidia_smi_status(s1, m)
        ELSE [s1 EXCEPT !.gpu_status_data = MetricsNA]

\* check_status_and_metrics that queries metrics before it reads the power file.
check_status_and_metrics_MetricsFirst(s, startup_check, read, m) ==
    LET s1 == IF s.state = "ACTIVE" THEN run_nvidia_smi_status(s, m) ELSE s
        s2 == check_runtime_status(s1, startup_check, read)
    IN  IF s2.state = "ACTIVE" THEN s2
        ELSE IF s2.state = "SUSPENDED" \/ s2.state = "IDLE_DETECTING"
        THEN [s2 EXCEPT !.gpu_status_data = MetricsZero]
        ELSE [s2 EXCEPT !.gpu_status_data = MetricsNA]

\* check_status_and_metrics that sets the zero metrics in SUSPENDED only and
\* leaves them as they are in IDLE_DETECTING.
check_status_and_metrics_KeepsMetricsWhenIdle(s, startup_check, read, m) ==
    LET s1 == check_runtime_status(s, startup_check, read)
    IN  IF s1.state = "ACTIVE" THEN run_nvidia_smi_status(s1, m)
        ELSE IF s1.state = "SUSPENDED"
        THEN [s1 EXCEPT !.gpu_status_data = MetricsZero]
        ELSE IF s1.state = "IDLE_DETECTING" THEN s1
        ELSE [s1 EXCEPT !.gpu_status_data = MetricsNA]

check_status_and_metrics(s, startup_check, read, m) ==
    LET s1 == check_runtime_status(s, startup_check, read)
    IN  IF s1.state = "ACTIVE" THEN run_nvidia_smi_status(s1, m)
        ELSE IF s1.state = "SUSPENDED" \/ s1.state = "IDLE_DETECTING"
        THEN [s1 EXCEPT !.gpu_status_data = MetricsZero]
        ELSE [s1 EXCEPT !.gpu_status_data = MetricsNA]

\* get_menu_data with one deviation, named by bug:
\*   "always_force": the process check is forced in every state;
\*   "counts_down":  in IDLE_DETECTING the refresh runs the idle timers' callback;
\*   "stale_data":   the list returned is the one held before the forced check.
get_menu_data_variant(s, out, bug) ==
    LET s1 == IF bug = "always_force" THEN force_run_process_check(s, out)
              ELSE IF bug = "counts_down" /\ s.state = "IDLE_DETECTING"
              THEN check_idle_process_activity(s, out)
              ELSE IF s.state = "ACTIVE" \/ s.state = "IDLE_DETECTING"
              THEN force_run_process_check(s, out) ELSE s
        held == IF bug = "stale_data" THEN s.last_parsed_data ELSE s1.last_parsed_data
        ret == CASE s1.state = "ACTIVE" -> held
                 [] s1.state = "SUSPENDED" ->
                        List(<< <<"Info", "GPU Suspended. No processes.">> >>)
                 [] s1.state = "IDLE_DETECTING" ->
                        IF Truthy(held) THEN held
                        ELSE List(<< <<"Info", "Idle. Monitoring for suspend/activity.">> >>)
                 [] s1.state = "ERROR" ->
                        List(<< <<"Error", "Check path/permissions or command">> >>)
                 [] OTHER -> List(<< <<"Info", "State: UNKNOWN">> >>)
    IN  [s1 EXCEPT !.menu_data = ret]

get_menu_data_AlwaysForce(s, out) == get_menu_data_variant(s, out, "always_force")

get_menu_data_CountsDown(s, out) == get_menu_data_variant(s, out, "counts_down")

get_menu_data_StaleData(s, out) == get_menu_data_variant(s, out, "stale_data")

\* The record after get_menu_data; its return value is the field menu_data.
get_menu_data(s, out) ==
    LET s1 == IF s.state = "ACTIVE" \/ s.state = "IDLE_DETECTING"
              THEN force_run_process_check(s, out) ELSE s
        ret == CASE s1.state = "ACTIVE" -> s1.last_parsed_data
                 [] s1.state = "SUSPENDED" ->
                        List(<< <<"Info", "GPU Suspended. No processes.">> >>)
                 [] s1.state = "IDLE_DETECTING" ->
                        IF Truthy(s1.last_parsed_data) THEN s1.last_parsed_data
                        ELSE List(<< <<"Info", "Idle. Monitoring for suspend/activity.">> >>)
                 [] s1.state = "ERROR" ->
                        List(<< <<"Error", "Check path/permissions or command">> >>)
                 [] OTHER -> List(<< <<"Info", "State: UNKNOWN">> >>)
    IN  [s1 EXCEPT !.menu_data = ret]

\* The fields as SystemTrayApp.__init__ sets them before its startup logic.
Fields0 ==
    [state |-> "UNKNOWN", fast_check_counter |-> 0,
     process_timer |-> FALSE, status_timer |-> FALSE,
     fast_check_timer |-> FALSE, idle_timer |-> FALSE,
     last_parsed_data |-> None, gpu_status_data |-> MetricsNA,
     menu_data |-> None, log |-> <<>>]

\* SystemTrayApp.__init__: the startup check, then status_timer.start().
SystemTrayApp_init(read, m) ==
    [check_status_and_metrics(Fields0, TRUE, read, m) EXCEPT !.status_timer = TRUE]

-----------------------------------------------------------------------------
(* The state machine *)

\* The object's fields on entry to a callback (the query log starts empty).
Self ==
    [state |-> state, fast_check_counter |-> fast_check_counter,
     process_timer |-> process_timer, status_timer |-> status_timer,
     fast_check_timer |-> fast_check_timer, idle_timer |-> idle_timer,
     last_parsed_data |-> last_parsed_data, gpu_status_data |-> gpu_status_data,
     menu_data |-> menu_data, log |-> <<>>]

HasQuery(l, op) == \E i \in 1..Len(l) : l[i].op = op
HasResult(l, op, res) == \E i \in 1..Len(l) : l[i].op = op /\ l[i].res = res

\* Commit the record a callback returned, and update the history variables.
Commit(s, who) ==
    /\ state' = s.state
    /\ fast_check_counter' = s.fast_check_counter
    /\ process_timer' = s.process_timer
    /\ status_timer' = s.status_timer
    /\ fast_check_timer' = s.fast_check_timer
    /\ idle_timer' = s.idle_timer
    /\ last_parsed_data' = s.last_parsed_data
    /\ gpu_status_data' = s.gpu_status_data
    /\ menu_data' = s.menu_data
    /\ log' = s.log
    /\ trigger' = who
    /\ prev_counter' = fast_check_counter
    /\ prev_trigger' = trigger
    /\ fnf_seen' = (fnf_seen \/ HasResult(s.log, "power", "FileNotFoundError"))
    /\ proc_failed' = (proc_failed \/ HasResult(s.log, "processes", "failed"))
    /\ retried' = (retried \/ (proc_failed /\ HasQuery(s.log, "processes")))
    /\ fast_checks' =
           IF s.state = "IDLE_DETECTING" /\ state # "IDLE_DETECTING" THEN 0
           ELSE IF who = "fast_check" /\ HasQuery(s.log, "processes")
                       /\ fast_checks <= FAST_CHECK_COUNT
           THEN fast_checks + 1
           ELSE fast_checks
    /\ UNCHANGED workerVars

-----------------------------------------------------------------------------
(* The task manager: GPUWorker and GpuTaskManager (src/gpu_task_manager.py) *)

\* Longest list of processes NVML reports, and longest /proc scan output in lines.
MaxProcs == 2

Pids == { 1234, 77 }

\* str(p.pid): the decimal string of a pid, as the /proc path spells it.
PidStr(pid) == IF pid = 1234 THEN "1234" ELSE "77"

\* pynvml.nvmlSystemGetProcessName(pid)
NvmlName(pid) == IF pid = 1234 THEN "/usr/bin/python3" ELSE "/usr/bin/blender"

\* A process NVML reports, and whether its name lookup succeeds.
NvmlProcs == [pid : Pids, named : BOOLEAN]

\* A line of the /proc query's output, split once at the first space.
ProcLines == { <<"1234", "python3">>, <<"77", "blender">>, <<"find:">> }

\* What the two NVML running-process queries yield together, or that they raise.
NvmlOutcomes ==
    { [ok |-> TRUE, procs |-> q] : q \in SeqsUpTo(NvmlProcs, MaxProcs) }
        \cup { [ok |-> FALSE, procs |-> <<>>] }

\* What subprocess.run(PROC_QUERY_CMD, timeout=1) yields, or that it raises.
ScanOutcomes ==
    { [ok |-> TRUE, lines |-> q] : q \in SeqsUpTo(ProcLines, MaxProcs) }
        \cup { [ok |-> FALSE, lines |-> <<>>] }

\* What nvmlInit() and nvmlDeviceGetHandleByIndex(0) do when called.
InitOutcomes == { "ok", "init_fails", "handle_fails" }

\* The thread GpuTaskManager lives in and its callbacks run on, and
\* self.worker_thread, the thread the worker is moved to.
UiThread == "ui"
WorkerThread == "worker_thread"

\* The dict combined, in insertion order.
HasKey(combined, pid) == \E i \in 1..Len(combined) : combined[i].pid = pid

\* combined[pid] = [name, source]
Put(combined, pid, name, source) ==
    IF HasKey(combined, pid)
    THEN [i \in 1..Len(combined) |->
              IF combined[i].pid = pid
              THEN [pid |-> pid, name |-> name, source |-> source]
              ELSE combined[i]]
    ELSE Append(combined, [pid |-> pid, name |-> name, source |-> source])

\* GPUWorker._ensure_init: the worker afterwards, and the value returned.
ensure_init(w, init_out) ==
    IF ~w.NVML_AVAILABLE THEN [w |-> w, ret |-> FALSE]
    ELSE IF ~w.is_initialized
    THEN CASE init_out = "ok" ->
                  [w |-> [w EXCEPT !.nvml_loaded = TRUE, !.handle = "handle0",
                                   !.is_initialized = TRUE],
                   ret |-> TRUE]
           [] init_out = "handle_fails" ->
                  [w |-> [w EXCEPT !.nvml_loaded = TRUE], ret |-> FALSE]
           [] OTHER -> [w |-> w, ret |-> FALSE]
    ELSE [w |-> w, ret |-> TRUE]

\* The loop over nv_procs: a failed name lookup skips the process.
RECURSIVE InsertNvml(_, _)
InsertNvml(combined, procs) ==
    IF procs = <<>> THEN combined
    ELSE LET p == Head(procs)
         IN  InsertNvml(IF p.named
                        THEN Put(combined, PidStr(p.pid), NvmlName(p.pid), "NVML")
                        ELSE combined,
                        Tail(procs))

\* The loop over the /proc lines: a pid already present is left alone.
RECURSIVE InsertProc(_, _)
InsertProc(combined, lines) ==
    IF lines = <<>> THEN combined
    ELSE LET parts == Head(lines)
         IN  InsertProc(IF Len(parts) = 2 /\ ~HasKey(combined, parts[1])
                        THEN Put(combined, parts[1], parts[2], "/proc")
                        ELSE combined,
                        Tail(lines))

\* The loop over the /proc lines without the test for a pid already present.
RECURSIVE InsertProcOverwriting(_, _)
InsertProcOverwriting(combined, lines) ==
    IF lines = <<>> THEN combined
    ELSE LET parts == Head(lines)
         IN  InsertProcOverwriting(IF Len(parts) = 2
                                   THEN Put(combined, parts[1], parts[2], "/proc")
                                   ELSE combined,
                                   Tail(lines))

\* fetch_processes whose /proc entries overwrite the NVML entries.
fetch_processes_ProcOverwrites(w, init_out) ==
    LET e  == ensure_init(w, init_out)
        c1 == IF e.ret /\ e.w.nvml_procs.ok
              THEN InsertNvml(<<>>, e.w.nvml_procs.procs) ELSE <<>>
        c2 == IF e.w.proc_scan.ok
              THEN InsertProcOverwriting(c1, e.w.proc_scan.lines) ELSE c1
    IN  [e.w EXCEPT !.emitted = [sent |-> TRUE, map |-> c2],
                    !.emit_count = @ + 1,
                    !.fetch_count = @ + 1,
                    !.fetch_thread = w.thread]

\* fetch_processes in which a failing /proc scan is not caught: the call ends
\* before data_ready.emit.
fetch_processes_ScanFailureSkipsEmit(w, init_out) ==
    LET e  == ensure_init(w, init_out)
        c1 == IF e.ret /\ e.w.nvml_procs.ok
              THEN InsertNvml(<<>>, e.w.nvml_procs.procs) ELSE <<>>
    IN  IF e.w.proc_scan.ok
        THEN [e.w EXCEPT !.emitted = [sent |-> TRUE,
                                      map |-> InsertProc(c1, e.w.proc_scan.lines)],
                         !.emit_count = @ + 1,
                         !.fetch_count = @ + 1,
                         !.fetch_thread = w.thread]
        ELSE [e.w EXCEPT !.fetch_count = @ + 1,
                         !.fetch_thread = w.thread]

\* GPUWorker.fetch_processes: the worker afterwards, emitted holding the dict
\* given to data_ready.emit.  A method called directly runs on the thread of
\* its caller (w.thread), whichever thread the object lives in.
fetch_processes(w, init_out) ==
    LET e  == ensure_init(w, init_out)
        c1 == IF e.ret /\ e.w.nvml_procs.ok
              THEN InsertNvml(<<>>, e.w.nvml_procs.procs) ELSE <<>>
        c2 == IF e.w.proc_scan.ok THEN InsertProc(c1, e.w.proc_scan.lines) ELSE c1
    IN  [e.w EXCEPT !.emitted = [sent |-> TRUE, map |-> c2],
                    !.emit_count = @ + 1,
                    !.fetch_count = @ + 1,
                    !.fetch_thread = w.thread]

\* GpuTaskManager.populate_table: one row per entry, in the dict's order.
populate_table(processes) ==
    [i \in 1..Len(processes) |->
         <<processes[i].pid, processes[i].name, processes[i].source>>]

\* GpuTaskManager.request_refresh: self.worker.fetch_processes(), called
\* directly.  The emit inside it happens on the thread the window lives in, so
\* the connected slot populate_table runs at once, once for the emit.
request_refresh(w, init_out) ==
    LET w1 == fetch_processes(w, init_out)
    IN  IF w1.emit_count > w.emit_count
        THEN [w1 EXCEPT !.table = populate_table(w1.emitted.map),
                        !.apply_count = @ + 1]
        ELSE w1

\* The worker and the window on entry to a callback.
Worker ==
    [NVML_AVAILABLE |-> NVML_AVAILABLE, nvml_procs |-> nvml_procs,
     proc_scan |-> proc_scan, nvml_loaded |-> nvml_loaded,
     is_initialized |-> worker_is_initialized, handle |-> worker_handle,
     emitted |-> emitted, table |-> table,
     thread |-> UiThread, fetch_thread |-> fetch_thread,
     fetch_count |-> 0, emit_count |-> 0, apply_count |-> 0]

WorkerCommit(w) ==
    /\ nvml_loaded' = w.nvml_loaded
    /\ worker_is_initialized' = w.is_initialized
    /\ worker_handle' = w.handle
    /\ emitted' = w.emitted
    /\ table' = w.table
    /\ fetch_thread' = w.fetch_thread
    /\ fetch_count' = w.fetch_count
    /\ emit_count' = w.emit_count
    /\ apply_count' = w.apply_count
    /\ UNCHANGED <<NVML_AVAILABLE, nvml_procs, proc_scan>>
    /\ UNCHANGED trayVars

\* GpuTaskManager.__init__ (with GPUWorker.__init__), in an environment where
\* pynvml is importable or not and the two process sources answer as given.
WorkerConstructed(available, nvml, scan) ==
    /\ NVML_AVAILABLE = available
    /\ nvml_procs = nvml
    /\ proc_scan = scan
    /\ nvml_loaded = FALSE
    /\ worker_is_initialized = FALSE
    /\ worker_handle = "None"
    /\ emitted = [sent |-> FALSE, map |-> <<>>]
    /\ table = <<>>
    /\ refresh_timer = FALSE
    /\ window = "created"
    /\ fetch_thread = "none"
    /\ fetch_count = 0
    /\ emit_count = 0
    /\ apply_count = 0

\* GpuTaskManager.showEvent
ShowEvent ==
    /\ window # "shown"
    /\ window' = "shown"
    /\ refresh_timer' = TRUE
    /\ \E init_out \in InitOutcomes : WorkerCommit(request_refresh(Worker, init_out))

\* refresh_timer.timeout -> request_refresh()
RefreshTimerTick ==
    /\ refresh_timer
    /\ UNCHANGED <<window, refresh_timer>>
    /\ \E init_out \in InitOutcomes : WorkerCommit(request_refresh(Worker, init_out))

\* refresh_btn.clicked -> request_refresh()
RefreshClicked ==
    /\ window = "shown"
    /\ UNCHANGED <<window, refresh_timer>>
    /\ \E init_out \in InitOutcomes : WorkerCommit(request_refresh(Worker, init_out))

\* kill_btn.clicked -> kill_normal(), aggressive_kill_btn.clicked ->
\* kill_aggressive(): with a row selected, the kill commands and then
\* request_refresh().  What the two sources report afterwards is the
\* environment's, as on every refresh.
KillClicked ==
    /\ window = "shown"
    /\ table # <<>>
    /\ UNCHANGED <<window, refresh_timer>>
    /\ \E init_out \in InitOutcomes : WorkerCommit(request_refresh(Worker, init_out))

\* GpuTaskManager.hideEvent (the window is hidden, or closed on losing focus)
HideEvent ==
    /\ window = "shown"
    /\ window' = "hidden"
    /\ refresh_timer' = FALSE
    /\ fetch_count' = 0
    /\ emit_count' = 0
    /\ apply_count' = 0
    /\ UNCHANGED <<NVML_AVAILABLE, nvml_procs, proc_scan, nvml_loaded,
                   worker_is_initialized, worker_handle, emitted, table, fetch_thread>>
    /\ UNCHANGED trayVars

\* The tray monitor as constructed, its startup read having yielded read and m.
TrayConstructed(read, m) ==
        LET s == SystemTrayApp_init(read, m)
        IN  /\ state = s.state
            /\ fast_check_counter = s.fast_check_counter
            /\ process_timer = s.process_timer
            /\ status_timer = s.status_timer
            /\ fast_check_timer = s.fast_check_timer
            /\ idle_timer = s.idle_timer
            /\ last_parsed_data = s.last_parsed_data
            /\ gpu_status_data = s.gpu_status_data
            /\ menu_data = s.menu_data
            /\ log = s.log
            /\ trigger = "init"
            /\ prev_counter = Fields0.fast_check_counter
            /\ prev_trigger = "none"
            /\ fnf_seen = (read = "FileNotFoundError")
            /\ proc_failed = FALSE
            /\ retried = FALSE
            /\ fast_checks = 0

Init ==
    /\ \E read \in PowerOutcomes, m \in MetricsOutcomes : TrayConstructed(read, m)
    /\ WorkerConstructed(FALSE, [ok |-> TRUE, procs |-> <<>>], [ok |-> TRUE, lines |-> <<>>])

\* status_timer.timeout -> check_status_and_metrics()
StatusTick ==
    /\ status_timer
    /\ \E read \in PowerOutcomes, m \in MetricsOutcomes :
           Commit(check_status_and_metrics(Self, FALSE, read, m), "status")

\* process_timer.timeout -> run_nvidia_smi_processes()
ProcessTick ==
    /\ process_timer
    /\ \E out \in ProcOutcomes :
           Commit(run_nvidia_smi_processes(Self, out), "process")

\* fast_check_timer.timeout -> check_idle_process_activity()
FastCheckTick ==
    /\ fast_check_timer
    /\ \E out \in ProcOutcomes :
           Commit(check_idle_process_activity(Self, out), "fast_check")

\* idle_timer.timeout -> check_idle_process_activity()
IdleTick ==
    /\ idle_timer
    /\ \E out \in ProcOutcomes :
           Commit(check_idle_process_activity(Self, out), "idle")

\* menu.aboutToShow -> update_process_menu() -> get_menu_data()
MenuShow ==
    /\ state \in States
    /\ \E out \in ProcOutcomes :
           Commit(get_menu_data(Self, out), "menu")

Next == StatusTick \/ ProcessTick \/ FastCheckTick \/ IdleTick \/ MenuShow

Spec == Init /\ [][Next]_vars

\* Qt delivers the timeout of every running timer; the menu is the user's choice.
FairSpec ==
    /\ Spec
    /\ WF_vars(StatusTick)
    /\ WF_vars(ProcessTick)
    /\ WF_vars(FastCheckTick)
    /\ WF_vars(IdleTick)

WorkerInit ==
    /\ \E m \in MetricsOutcomes : TrayConstructed("suspended", m)
    /\ \E available \in BOOLEAN, nvml \in NvmlOutcomes, scan \in ScanOutcomes :
           WorkerConstructed(available, nvml, scan)

WorkerNext == ShowEvent \/ RefreshTimerTick \/ RefreshClicked \/ KillClicked \/ HideEvent

WorkerSpec == WorkerInit /\ [][WorkerNext]_vars

TypeOK ==
    /\ state \in States
    /\ fast_check_counter \in 0..FAST_CHECK_COUNT
    /\ process_timer \in BOOLEAN /\ status_timer \in BOOLEAN
    /\ fast_check_timer \in BOOLEAN /\ idle_timer \in BOOLEAN

-----------------------------------------------------------------------------
(* Properties *)

\* The last callback was a status tick whose power-file read, made in state at,
\* gave res.
StatusRead(at, res) ==
    trigger = "status" /\ Len(log) >= 1 /\ log[1] = Query("power", at, res)

\* The last callback (process timer or menu) queried the processes in state
\* ACTIVE and the query raised.
ProcFailedInActive ==
    /\ trigger \in { "process", "menu" }
    /\ Len(log) >= 1
    /\ log[1] = Query("processes", "ACTIVE", "failed")

PollingTimersStopped == ~process_timer /\ ~fast_check_timer /\ ~idle_timer

\* C1: no callback issues a process query or a metrics query at a moment when
\* state = SUSPENDED.
C1NoExpensiveQueryWhileSuspended ==
    \A i \in 1..Len(log) :
        log[i].op \in { "processes", "metrics" } => log[i].at # "SUSPENDED"

\* C1 witness: a status tick that found the device suspended, stayed SUSPENDED
\* and issued the power-file read alone.
C1Witness ==
    /\ state = "SUSPENDED"
    /\ trigger = "status"
    /\ log = << Query("power", "SUSPENDED", "suspended") >>

\* C2: while state is not ERROR the status timer is running, and every firing
\* of it reads the power file before any other query.
C2PowerFileReadFirst ==
    /\ state # "ERROR" => status_timer
    /\ trigger = "status" => Len(log) >= 1 /\ log[1].op = "power"

\* C2 witness: a status tick in ACTIVE that read the power file and then
\* queried the metrics.
C2Witness ==
    /\ trigger = "status"
    /\ status_timer
    /\ Len(log) = 2
    /\ log[1] = Query("power", "ACTIVE", "active")
    /\ log[2].op = "metrics"

\* C3 as claimed: a status tick that reads 'suspended' in ACTIVE ends in
\* SUSPENDED with the process timer stopped.
C3SuspendedReadInActiveSuspends ==
    StatusRead("ACTIVE", "suspended") => state = "SUSPENDED" /\ ~process_timer

\* C3 as amended: a status tick that reads 'suspended' in ACTIVE leaves state
\* ACTIVE with the process timer running; a status tick enters SUSPENDED only
\* from IDLE_DETECTING or UNKNOWN.
C3SuspendedReadInActiveIgnored ==
    /\ StatusRead("ACTIVE", "suspended") => state = "ACTIVE" /\ process_timer
    /\ (trigger = "status" /\ state = "SUSPENDED" /\ log[1].at # "SUSPENDED")
           => log[1].at \in { "IDLE_DETECTING", "UNKNOWN" }

\* C3 witness: the tick read 'suspended' in ACTIVE, stayed ACTIVE and went on
\* to query the metrics.
C3Witness ==
    /\ StatusRead("ACTIVE", "suspended")
    /\ state = "ACTIVE"
    /\ Len(log) = 2 /\ log[2].op = "metrics"

\* C4 as claimed: a status tick that reads 'active' in SUSPENDED ends in
\* IDLE_DETECTING with the counter at FAST_CHECK_COUNT.
C4WakeEntersIdleDetecting ==
    StatusRead("SUSPENDED", "active")
        => state = "IDLE_DETECTING" /\ fast_check_counter = FAST_CHECK_COUNT

\* C4 as amended: a status tick that reads 'active' in SUSPENDED ends in ACTIVE
\* with the process timer running and both idle timers stopped, without any
\* process query, and leaves fast_check_counter as it was.
C4WakeEntersActive ==
    [][ (state = "SUSPENDED" /\ trigger' = "status" /\ log'[1].res = "active")
            => /\ state' = "ACTIVE"
               /\ process_timer' /\ ~fast_check_timer' /\ ~idle_timer'
               /\ fast_check_counter' = fast_check_counter
               /\ \A i \in 1..Len(log') : log'[i].op # "processes" ]_vars

\* C4 witness: the tick read 'active' in SUSPENDED and state is ACTIVE.
C4Witness ==
    /\ StatusRead("SUSPENDED", "active")
    /\ state = "ACTIVE"
    /\ process_timer

\* C5: every step that enters IDLE_DETECTING leaves fast_check_counter at
\* FAST_CHECK_COUNT, whatever the counter was before.
C5CounterResetOnEntry ==
    [][ (state # "IDLE_DETECTING" /\ state' = "IDLE_DETECTING")
            => fast_check_counter' = FAST_CHECK_COUNT ]_vars

\* C5 witness: IDLE_DETECTING was entered by the process timer with a counter
\* left part-way through stage 1 of an earlier idle episode.
C5Witness ==
    /\ state = "IDLE_DETECTING"
    /\ trigger = "process"
    /\ prev_counter \in 1..(FAST_CHECK_COUNT - 1)
    /\ fast_check_counter = FAST_CHECK_COUNT

\* C6: once a power-file read has raised FileNotFoundError, state is ERROR in
\* every later state.
C6ErrorAbsorbing == fnf_seen => state = "ERROR"

\* C6 witness: after a FileNotFoundError, a later status tick read 'active'
\* and state is still ERROR.
C6Witness ==
    /\ fnf_seen
    /\ state = "ERROR"
    /\ trigger = "status"
    /\ log = << Query("power", "ERROR", "active") >>

\* C7 as claimed: after a power-file read has raised FileNotFoundError the
\* status timer is not running.
C7PollingHalts == fnf_seen => ~status_timer

\* C8 as claimed: a failed process query in ACTIVE leaves state ACTIVE.
C8FailedQueryKeepsActive == ProcFailedInActive => state = "ACTIVE"

\* C8 as amended: a failed process query in ACTIVE moves state to ERROR (never
\* to IDLE_DETECTING), sets last_parsed_data to the Command Failed marker and
\* stops the three polling timers.
C8FailedQueryEntersError ==
    ProcFailedInActive
        => /\ state = "ERROR"
           /\ last_parsed_data = CommandFailed
           /\ PollingTimersStopped

\* C8 witness: the process timer's query failed in ACTIVE and state is ERROR.
C8Witness ==
    /\ trigger = "process"
    /\ log = << Query("processes", "ACTIVE", "failed") >>
    /\ state = "ERROR"

\* The last callback's power-file read raised.
PowerUnreadable ==
    /\ trigger \in { "init", "status" }
    /\ log[1].res \in { "FileNotFoundError", "PermissionError" }

\* C9 as claimed: after a process query has failed, a process query is issued
\* again later, provided the power file stays readable.
C9FailedQueryRetried == proc_failed ~> (retried \/ fnf_seen \/ PowerUnreadable)

\* C9 as amended: a process query that fails is not retried: from then on
\* state is ERROR, the three polling timers are stopped and no process query
\* is issued.
C9FailedQueryNeverRetried ==
    proc_failed => state = "ERROR" /\ PollingTimersStopped /\ ~retried

\* C9 witness: a process query has failed, and a later status tick still finds
\* the monitor in ERROR with every polling timer stopped, the power file readable.
C9Witness ==
    /\ proc_failed
    /\ ~fnf_seen
    /\ StatusRead("ERROR", "active")
    /\ state = "ERROR"
    /\ PollingTimersStopped

\* C10: a status tick whose power-file read raises an error other than
\* FileNotFoundError leaves state, the four timers and fast_check_counter
\* unchanged, the status timer still running.
C10OtherReadErrorChangesNothing ==
    [][ (trigger' = "status" /\ log'[1].res = "PermissionError")
            => /\ state' = state
               /\ fast_check_counter' = fast_check_counter
               /\ process_timer' = process_timer
               /\ fast_check_timer' = fast_check_timer
               /\ idle_timer' = idle_timer
               /\ status_timer' ]_vars

\* C10 witness: the read raised PermissionError during stage 1 of
\* IDLE_DETECTING, and the countdown is where it was.
C10Witness ==
    /\ StatusRead("IDLE_DETECTING", "PermissionError")
    /\ state = "IDLE_DETECTING"
    /\ fast_check_timer
    /\ fast_check_counter = prev_counter
    /\ fast_check_counter < FAST_CHECK_COUNT

\* C11: state changes to SUSPENDED only in a status tick that read 'suspended',
\* and changes from SUSPENDED to ACTIVE or IDLE_DETECTING only in a status tick
\* that read 'active'; no process query, metrics result or menu refresh enters
\* or leaves SUSPENDED.
C11PowerFileSoleAuthority ==
    [][ /\ (state # "SUSPENDED" /\ state' = "SUSPENDED")
            => /\ trigger' = "status"
               /\ log' = << Query("power", state, "suspended") >>
        /\ (state = "SUSPENDED" /\ state' \in { "ACTIVE", "IDLE_DETECTING" })
            => /\ trigger' = "status"
               /\ log'[1] = Query("power", "SUSPENDED", "active")
        /\ (state = "SUSPENDED" /\ trigger' # "status")
            => state' = "SUSPENDED" ]_vars

\* C11 witness: a menu refresh made while SUSPENDED, after a status tick had
\* entered SUSPENDED, issued no query and left the state SUSPENDED.
C11Witness ==
    /\ state = "SUSPENDED"
    /\ trigger = "menu"
    /\ prev_trigger = "status"
    /\ log = <<>>

\* C12: from IDLE_DETECTING, in stage 1 or in the slow loop, a status tick that
\* reads 'suspended' sets state = SUSPENDED and stops the fast-check, slow idle
\* and process timers; while later reads return 'suspended' the state stays
\* SUSPENDED and no process or metrics query is issued.
C12IdleToSuspended ==
    [][ /\ (state = "IDLE_DETECTING" /\ trigger' = "status"
                /\ log'[1].res = "suspended")
            => state' = "SUSPENDED" /\ PollingTimersStopped'
        /\ (state = "SUSPENDED"
                /\ (trigger' = "status" => log'[1].res = "suspended"))
            => /\ state' = "SUSPENDED"
               /\ PollingTimersStopped'
               /\ \A i \in 1..Len(log') : log'[i].op = "power" ]_vars

\* C12 witness: the slow loop was running (counter at 0) when a status tick
\* read 'suspended'; state is SUSPENDED with the three timers stopped.
C12Witness ==
    /\ StatusRead("IDLE_DETECTING", "suspended")
    /\ prev_counter = 0
    /\ state = "SUSPENDED"
    /\ PollingTimersStopped

\* Settled idle: the stage-1 countdown has reached zero.
Settled == state = "IDLE_DETECTING" /\ fast_check_counter = 0

\* Every process query of the last callback returned a non-empty list.
ProcSourceNonEmpty ==
    \A i \in 1..Len(log) : log[i].op = "processes" => log[i].res = "nonempty"

\* In settled idle the slow idle timer is running, and each of its firings
\* issues a process query.
SlowLoopPolls ==
    /\ [](Settled => idle_timer /\ ~fast_check_timer)
    /\ [][ (Settled /\ trigger' = "idle")
               => log'[1] \in { Query("processes", "IDLE_DETECTING", r) :
                                    r \in { "empty", "nonempty", "failed" } } ]_vars

\* C13 as claimed: settled idle keeps polling, and if the process source
\* returns a non-empty list from some point on, state eventually becomes ACTIVE.
C13SettledIdleReachesActive ==
    /\ SlowLoopPolls
    /\ (<>[]ProcSourceNonEmpty) => (Settled ~> state = "ACTIVE")

\* C13 as amended: settled idle keeps polling, and if the process source
\* returns a non-empty list from some point on, the monitor does not stay in
\* settled idle: state eventually becomes ACTIVE, unless a status tick first
\* reads 'suspended' (SUSPENDED) or a read or query raises (ERROR).
C13SettledIdleIsLeft ==
    /\ SlowLoopPolls
    /\ (<>[]ProcSourceNonEmpty)
           => (Settled ~> state \in { "ACTIVE", "SUSPENDED", "ERROR" })

\* C13 witness: a firing of the slow idle timer in settled idle found
\* processes and state is ACTIVE.
C13Witness ==
    /\ trigger = "idle"
    /\ prev_counter = 0
    /\ log = << Query("processes", "IDLE_DETECTING", "nonempty") >>
    /\ state = "ACTIVE"

\* A callback that can query the processes ran last.
ProcessCallback == trigger \in { "process", "fast_check", "idle", "menu" }

\* C14: whenever a process query made in ACTIVE or IDLE_DETECTING by the
\* process timer, the fast-check timer, the slow idle timer or the menu refresh
\* returns a non-empty list, state is ACTIVE when the callback returns, with the
\* process timer running and both idle timers stopped.
C14NonEmptyPromotesToActive ==
    (ProcessCallback /\ HasResult(log, "processes", "nonempty"))
        => /\ state = "ACTIVE"
           /\ process_timer
           /\ ~fast_check_timer /\ ~idle_timer

\* C14 witness: a menu refresh made in IDLE_DETECTING found processes and
\* state is ACTIVE.
C14Witness ==
    /\ trigger = "menu"
    /\ log = << Query("processes", "IDLE_DETECTING", "nonempty") >>
    /\ state = "ACTIVE"
    /\ process_timer

\* C15: a menu refresh that does not change the state leaves
\* fast_check_counter, the fast-check timer and the slow idle timer as they were.
C15MenuKeepsCountdown ==
    [][ (trigger' = "menu" /\ state' = state)
            => /\ fast_check_counter' = fast_check_counter
               /\ fast_check_timer' = fast_check_timer
               /\ idle_timer' = idle_timer ]_vars

\* C15 witness: two menu refreshes in a row during stage 1 found no process,
\* and the countdown stands where it stood.
C15Witness ==
    /\ trigger = "menu"
    /\ prev_trigger = "menu"
    /\ log = << Query("processes", "IDLE_DETECTING", "empty") >>
    /\ state = "IDLE_DETECTING"
    /\ fast_check_timer
    /\ fast_check_counter = prev_counter
    /\ fast_check_counter \in 1..(FAST_CHECK_COUNT - 1)

\* C16 as claimed: for every process-query result, the menu refresh moves the
\* state to the same next state as the regular timer callback of the current
\* state: run_nvidia_smi_processes in ACTIVE, check_idle_process_activity in
\* IDLE_DETECTING.
C16MenuSameAsTick ==
    \A out \in ProcOutcomes :
        /\ state = "ACTIVE"
               => get_menu_data(Self, out).state = run_nvidia_smi_processes(Self, out).state
        /\ state = "IDLE_DETECTING"
               => get_menu_data(Self, out).state
                      = check_idle_process_activity(Self, out).state

\* C16 as amended: the menu refresh moves the state to the same next state as
\* the regular timer callback, except in ACTIVE with an empty process list,
\* where the refresh leaves the state ACTIVE and the process timer's callback
\* moves it to IDLE_DETECTING.
C16MenuSameAsTickUnlessEmptyInActive ==
    \A out \in ProcOutcomes :
        LET empty == out.ok /\ parse_nvidia_smi_output_processes(out.raw) = <<>>
        IN  /\ (state = "ACTIVE" /\ ~empty)
                   => get_menu_data(Self, out).state
                          = run_nvidia_smi_processes(Self, out).state
            /\ (state = "ACTIVE" /\ empty)
                   => /\ get_menu_data(Self, out).state = "ACTIVE"
                      /\ run_nvidia_smi_processes(Self, out).state = "IDLE_DETECTING"
            /\ state = "IDLE_DETECTING"
                   => get_menu_data(Self, out).state
                          = check_idle_process_activity(Self, out).state

\* C16 witness: a menu refresh made in ACTIVE got an empty list and state is
\* still ACTIVE, the process timer running.
C16Witness ==
    /\ trigger = "menu"
    /\ log = << Query("processes", "ACTIVE", "empty") >>
    /\ state = "ACTIVE"
    /\ process_timer
    /\ last_parsed_data = None

\* C17: a second menu refresh with the same process-source output, no timer
\* firing in between, leaves the same state, the same last_parsed_data and the
\* same returned menu data as the first.
C17RefreshIdempotent ==
    \A out \in ProcOutcomes :
        LET s1 == get_menu_data(Self, out)
            s2 == get_menu_data([s1 EXCEPT !.log = <<>>], out)
        IN  /\ s2.state = s1.state
            /\ s2.last_parsed_data = s1.last_parsed_data
            /\ s2.menu_data = s1.menu_data

\* C17 witness: the menu was refreshed twice in a row, the second time in
\* ACTIVE with processes found, and the data returned is the list held.
C17Witness ==
    /\ trigger = "menu"
    /\ prev_trigger = "menu"
    /\ log = << Query("processes", "ACTIVE", "nonempty") >>
    /\ state = "ACTIVE"
    /\ Truthy(last_parsed_data)
    /\ menu_data = last_parsed_data

\* C20: between callbacks the process timer is running iff state = ACTIVE,
\* exactly one of the fast-check timer and the slow idle timer is running iff
\* state = IDLE_DETECTING, and none of the three is running in UNKNOWN,
\* SUSPENDED or ERROR.
C20TimersFollowState ==
    /\ process_timer <=> state = "ACTIVE"
    /\ ~(fast_check_timer /\ idle_timer)
    /\ (fast_check_timer \/ idle_timer) <=> state = "IDLE_DETECTING"
    /\ state \in { "UNKNOWN", "SUSPENDED", "ERROR" } => PollingTimersStopped

\* C20 witness: the slow loop of IDLE_DETECTING, the slow idle timer running
\* alone.
C20Witness ==
    /\ state = "IDLE_DETECTING"
    /\ idle_timer
    /\ ~fast_check_timer
    /\ ~process_timer
    /\ fast_check_counter = 0

\* The last fetch took the NVML path: _ensure_init returned True and the NVML
\* queries did not raise.
NvmlRan == NVML_AVAILABLE /\ worker_is_initialized /\ nvml_procs.ok

\* NVML inserted an entry for the pid string k in the last fetch.
NvmlInserted(k) ==
    /\ NvmlRan
    /\ \E i \in 1..Len(nvml_procs.procs) :
           nvml_procs.procs[i].named /\ PidStr(nvml_procs.procs[i].pid) = k

\* C18: in the map fetch_processes emits every pid appears once; a pid NVML
\* reported with a resolvable name is tagged NVML with the NVML name, also when
\* the /proc scan reports it; a pid is tagged /proc only if NVML inserted no
\* entry for it.
C18AuthoritativeWins ==
    emitted.sent =>
        LET map == emitted.map
        IN  /\ \A i, j \in 1..Len(map) : map[i].pid = map[j].pid => i = j
            /\ \A pid \in Pids :
                   NvmlInserted(PidStr(pid))
                       => \E i \in 1..Len(map) :
                              map[i] = [pid |-> PidStr(pid), name |-> NvmlName(pid),
                                        source |-> "NVML"]
            /\ \A i \in 1..Len(map) :
                   map[i].source = "/proc"
                       => /\ ~NvmlInserted(map[i].pid)
                          /\ proc_scan.ok
                          /\ \E n \in 1..Len(proc_scan.lines) :
                                 proc_scan.lines[n] = <<map[i].pid, map[i].name>>

\* C18 witness: NVML and the /proc scan both reported pid 1234, the scan
\* another pid too; the map holds 1234 from NVML and 77 from /proc.
C18Witness ==
    /\ emitted.sent
    /\ NvmlInserted("1234")
    /\ proc_scan.ok
    /\ proc_scan.lines = << <<"1234", "python3">>, <<"77", "blender">> >>
    /\ emitted.map = << [pid |-> "1234", name |-> "/usr/bin/python3", source |-> "NVML"],
                        [pid |-> "77", name |-> "blender", source |-> "/proc"] >>

\* C19 as claimed: once the window is hidden or closed (the program's way out)
\* the NVML handle acquired by _ensure_init is no longer held.
C19HandleReleasedOnHide ==
    window = "hidden" => ~nvml_loaded /\ worker_handle = "None"

\* C21: fast_check_counter stays within 0..FAST_CHECK_COUNT; while the state is
\* IDLE_DETECTING the fast-check timer runs exactly while the counter is
\* positive, the fast checks made since entry and the counter add up to
\* FAST_CHECK_COUNT, and the idle timer runs exactly when FAST_CHECK_COUNT fast
\* checks have been made; a step that starts in the slow loop and stays in
\* IDLE_DETECTING stays in the slow loop, with no further fast check.
C21TwoStageCountdown ==
    /\ [](/\ fast_check_counter \in 0..FAST_CHECK_COUNT
          /\ state = "IDLE_DETECTING" =>
                 /\ fast_check_timer <=> fast_check_counter > 0
                 /\ fast_checks + fast_check_counter = FAST_CHECK_COUNT
                 /\ idle_timer <=> fast_checks = FAST_CHECK_COUNT
                 /\ idle_timer <=> ~fast_check_timer)
    /\ [][state = "IDLE_DETECTING" /\ idle_timer /\ state' = "IDLE_DETECTING"
             => idle_timer' /\ ~fast_check_timer' /\ fast_checks' = fast_checks]_vars

\* C21 witness: the fast-check timeout that made the last of the
\* FAST_CHECK_COUNT fast checks, found no process, stopped the fast-check timer
\* and started the idle timer.
C21Witness ==
    /\ state = "IDLE_DETECTING"
    /\ trigger = "fast_check"
    /\ log = << Query("processes", "IDLE_DETECTING", "empty") >>
    /\ prev_counter = 1
    /\ fast_check_counter = 0
    /\ fast_checks = FAST_CHECK_COUNT
    /\ idle_timer /\ ~fast_check_timer

\* C22: a status tick in IDLE_DETECTING whose power-file read gives a value
\* other than 'suspended' leaves the state, the four timers and
\* fast_check_counter unchanged; and a step that leaves IDLE_DETECTING is a
\* status tick that read 'suspended' (to SUSPENDED), a process check that found
\* a non-empty list (to ACTIVE), or a process query or power-file read that
\* failed (to ERROR).
C22IdleLeftOnlyBySuspendActivityOrFailure ==
    [][state = "IDLE_DETECTING" =>
          /\ (/\ trigger' = "status"
              /\ \E v \in PowerOutcomes \ { "suspended", "FileNotFoundError",
                                             "PermissionError" } :
                     log'[1] = Query("power", "IDLE_DETECTING", v))
                 => UNCHANGED <<state, process_timer, status_timer, fast_check_timer,
                                idle_timer, fast_check_counter>>
          /\ state' # "IDLE_DETECTING" =>
                 \/ /\ state' = "SUSPENDED"
                    /\ trigger' = "status"
                    /\ log' = << Query("power", "IDLE_DETECTING", "suspended") >>
                 \/ /\ state' = "ACTIVE"
                    /\ trigger' \in { "fast_check", "idle", "menu" }
                    /\ log' = << Query("processes", "IDLE_DETECTING", "nonempty") >>
                 \/ /\ state' = "ERROR"
                    /\ \/ log' = << Query("processes", "IDLE_DETECTING", "failed") >>
                       \/ log' = << Query("power", "IDLE_DETECTING",
                                          "FileNotFoundError") >>]_vars

\* C22 witness: a status tick in the middle of the fast countdown read 'active'
\* and the monitor is still in IDLE_DETECTING with the same counter.
C22Witness ==
    /\ StatusRead("IDLE_DETECTING", "active")
    /\ state = "IDLE_DETECTING"
    /\ fast_check_timer /\ ~idle_timer /\ ~process_timer
    /\ prev_counter = 2
    /\ fast_check_counter = 2

\* C23 as claimed: fetch_processes never runs on the UI thread; every run of it
\* is on worker_thread.
C23FetchRunsOnWorkerThread ==
    fetch_thread # UiThread /\ (emitted.sent => fetch_thread = WorkerThread)

\* C24: in every callback each call of fetch_processes emitted data_ready once
\* and each emission was applied by populate_table once; a callback makes at
\* most one request, and after it the table shows the dict last emitted.
C24OneEmitOneApplyPerFetch ==
    /\ emit_count = fetch_count
    /\ apply_count = emit_count
    /\ fetch_count <= 1
    /\ emitted.sent <=> fetch_thread # "none"
    /\ emitted.sent => table = populate_table(emitted.map)

\* C24 witness: a refresh in which nvmlInit succeeded, the NVML query raised
\* and the /proc scan timed out; data_ready was emitted once, with the empty
\* dict, and applied once.
C24Witness ==
    /\ NVML_AVAILABLE /\ worker_is_initialized
    /\ ~nvml_procs.ok
    /\ ~proc_scan.ok
    /\ fetch_count = 1 /\ emit_count = 1 /\ apply_count = 1
    /\ emitted = [sent |-> TRUE, map |-> <<>>]
    /\ table = <<>>

\* gpu_status_data agrees with the state: zero in SUSPENDED and
\* IDLE_DETECTING, N/A in ERROR, and anything else only in ACTIVE.
MetricsFollowState ==
    /\ state \in { "SUSPENDED", "IDLE_DETECTING" } => gpu_status_data = MetricsZero
    /\ state = "ERROR" => gpu_status_data = MetricsNA
    /\ gpu_status_data \notin { MetricsZero, MetricsNA } => state = "ACTIVE"

\* C25 as claimed: between callbacks gpu_status_data always agrees with the
\* state.
C25MetricsAlwaysFollowState == MetricsFollowState

\* C25: after the constructor and after every status tick gpu_status_data
\* agrees with the state (and is N/A in UNKNOWN); no other callback writes
\* gpu_status_data, and a value parsed from nvidia-smi is written only by a tick
\* that ends in ACTIVE with a successful metrics query.
C25MetricsFollowStateAfterStatusTick ==
    /\ [](trigger \in { "init", "status" } =>
              /\ MetricsFollowState
              /\ state = "UNKNOWN" => gpu_status_data = MetricsNA)
    /\ [][/\ trigger' # "status" => gpu_status_data' = gpu_status_data
          /\ (/\ gpu_status_data' # gpu_status_data
              /\ gpu_status_data' \notin { MetricsZero, MetricsNA })
                 => state' = "ACTIVE" /\ HasResult(log', "metrics", "ok")]_vars

\* C25 witness: the process tick before found no process and entered
\* IDLE_DETECTING; the status tick after it read 'active', stayed in
\* IDLE_DETECTING and set the zero metrics.
C25Witness ==
    /\ StatusRead("IDLE_DETECTING", "active")
    /\ prev_trigger = "process"
    /\ state = "IDLE_DETECTING"
    /\ fast_checks = 0
    /\ gpu_status_data = MetricsZero

====
